---------------------------- MODULE Spec2Model ----------------------------
(***************************************************************************)
(* A model of the dataset-building scripts of test_ml:                     *)
(*                                                                         *)
(*   url-fixer.py            get_image_suffixes, update_urls_in_file       *)
(*   url-yolo-converter.py   annotation conversion and dataset assembly    *)
(*   url-updater.py          update_label_files                            *)
(*   download.py             download_images                               *)
(*                                                                         *)
(* Each script is a state machine of its own over its own variables; the   *)
(* specifications SpecResolver, SpecConvert, SpecAssemble, SpecSync and    *)
(* SpecFetch run one script each and hold the other scripts' variables at  *)
(* their idle values.  SpecReassemble runs the assembly more than once     *)
(* into one output directory, SpecRefetch kills a download run and runs it *)
(* again, and SpecFetchLive is SpecFetch with workers that keep running.   *)
(*                                                                         *)
(* Modelling conventions.                                                  *)
(*  - A Python dict is a sequence of <<key, value>> pairs with distinct    *)
(*    keys, in insertion order; assigning to an existing key replaces the  *)
(*    value in place.                                                      *)
(*  - An I/O call fails in the model exactly where the code has a handler  *)
(*    for the failure (an except branch): urlopen, requests.get,           *)
(*    os.rename, opening an annotation file, opening an image file.        *)
(*  - A float is the exact rational it approximates, kept as a numerator   *)
(*    and a denominator; "%.6f" is the rounding of that rational to an     *)
(*    integer number of millionths.                                        *)
(***************************************************************************)
EXTENDS Integers, Sequences, FiniteSets, Bags, TLC

VARIABLES
    \* ---- url-fixer.py
    cachePath,      \* whether --cache-file names a path (it does by default)
    cacheFile,      \* the file at that path: [exists, lines]
    cacheWrites,    \* open(cache_file, 'w') calls made so far, over all passes
    rsWriter,       \* the pass that wrote the file: [written, suffixes, failed]
    rsPc,           \* position of get_image_suffixes / main
    rsArgs,         \* arguments of the running pass: [ids, useCache]
    rsIdx,          \* index of the next imageset of the for loop
    suffixes,       \* the dict being built or loaded
    netCalls,       \* urlopen calls issued by the running pass
    rsFileAtStart,  \* the cache file as the running pass found it
    rsStatus,       \* per imageset of the running pass: pending/ok/failed
    rsListing,      \* the last directory listing response: [iset, ok, matches]
    rsLookup,       \* the last lookup of update_urls_in_file
    rsPasses,       \* passes started so far
    \* ---- url-yolo-converter.py: one annotation line
    cvPc,           \* "parse", "convert" or "done"
    cvLine,         \* the annotation line: [ints, values]
    cvDims,         \* <<img_width, img_height>>
    cvMapping,      \* class_mapping: a dict, empty for None
    cvAnn,          \* what parse_annotation_format returned or raised
    cvOut,          \* what convert_to_yolo_format returned or raised
    \* ---- url-yolo-converter.py: create_url_dataset
    asmPc,          \* position of create_url_dataset
    asmArgs,        \* [imagesets, ratio, verify, mapping]
    asmIdx,         \* index of the imageset of the for loop
    asmRead,        \* annotation records read so far, over all runs
    pairs,          \* image_label_pairs of the imageset in hand
    trainData,      \* train_data
    valData,        \* val_data
    tempLabels,     \* temp_labels/<imageset>/image-<number>.txt -> content
    trainLabels,    \* labels/train/image-<number>.txt -> content
    valLabels,      \* labels/val/image-<number>.txt -> content
    trainTxt,       \* train.txt: [written, urls]
    valTxt,         \* val.txt: [written, urls]
    manifest,       \* dataset.yaml: [written, nc, names]
    asmError,       \* the exception that ended the run, if one did
    asmCounts,      \* len(image_label_pairs) of each imageset split so far
    asmProduced,    \* the pairs process_yaml_to_yolo returned so far, a bag
    asmListings,    \* urlopen(base_url) calls made for the imageset in hand
    asmRuns,        \* runs of create_url_dataset into the output directory
    \* ---- url-updater.py
    syPc,           \* position of update_label_files
    syUrlFile,      \* the URL file: [exists, lines]
    syDir,          \* the label directory: file name -> content
    syDir0,         \* the label directory as the run found it
    syMap,          \* url_map
    syTodo,         \* the files of current_labels not looked at yet
    syCount,        \* renamed_count
    syLog,          \* what was printed per file: <<message, file name>>
    \* ---- download.py
    ftUrls,         \* urls, the lines of <split>.txt
    ftFiles,        \* the image directory: file name -> content
    ftFiles0,       \* the image directory as the run found it
    ftTask,         \* per URL: position of download_image in its worker
    ftRequests,     \* per URL: the requests.get calls made
    ftOutcome,      \* per URL: what download_image printed
    ftResponse,     \* per URL: what requests.get came to
    ftInterrupted   \* whether an earlier run over these URLs was killed

rsVars == <<cachePath, cacheFile, cacheWrites, rsWriter, rsPc, rsArgs, rsIdx, suffixes, netCalls, rsFileAtStart,
            rsStatus, rsListing, rsLookup, rsPasses>>

cvVars == <<cvPc, cvLine, cvDims, cvMapping, cvAnn, cvOut>>

asmVars == <<asmPc, asmArgs, asmIdx, asmRead, pairs, trainData, valData,
             tempLabels, trainLabels, valLabels, trainTxt, valTxt, manifest,
             asmError, asmCounts, asmProduced, asmListings,
             asmRuns>>

syVars == <<syPc, syUrlFile, syDir, syDir0, syMap, syTodo, syCount, syLog>>

ftVars == <<ftUrls, ftFiles, ftFiles0, ftTask, ftRequests, ftOutcome,
            ftResponse, ftInterrupted>>

vars == <<rsVars, cvVars, asmVars, syVars, ftVars>>

\* What each script leaves alone: the variables of the other scripts.
rsOthers == <<cvVars, asmVars, syVars, ftVars>>
cvOthers == <<rsVars, asmVars, syVars, ftVars>>
asmOthers == <<rsVars, cvVars, syVars, ftVars>>
syOthers == <<rsVars, cvVars, asmVars, ftVars>>
ftOthers == <<rsVars, cvVars, asmVars, syVars>>

-----------------------------------------------------------------------------
(* Bounds *)

MaxMatches == 2     \* filename matches in one directory listing
MaxLines == 2       \* lines of a cache file found on disk
MaxPasses == 2      \* runs of url-fixer.py in one behaviour
MaxRecords == 3     \* annotation records read by the assembly runs
MaxRuns == 2        \* runs of create_url_dataset into one output directory
MaxUrlLines == 2    \* lines of the URL file read by url-updater.py
MaxUrls == 2        \* lines of <split>.txt read by download.py

-----------------------------------------------------------------------------
(* Value universes *)

ImageNumbers == {"0000601", "0000602"}
Tokens == {"EGD3NF", "X7"}
NotFound == "NotFound"

\* Sequences over S of length at most n.
BSeq(S, n) == UNION {[1..k -> S] : k \in 0..n}

-----------------------------------------------------------------------------
(* Python dicts *)

DictHas(d, k) == \E i \in 1..Len(d) : d[i][1] = k

DictGet(d, k) == d[CHOOSE i \in 1..Len(d) : d[i][1] = k][2]

DictSet(d, k, v) ==
    IF DictHas(d, k)
    THEN [i \in 1..Len(d) |-> IF d[i][1] = k THEN <<k, v>> ELSE d[i]]
    ELSE Append(d, <<k, v>>)

DictKeys(d) == {d[i][1] : i \in 1..Len(d)}

-----------------------------------------------------------------------------
(* url-yolo-converter.py: parse_annotation_format, convert_to_yolo_format *)

\* An annotation line after split(','): `ints` says whether every field is
\* the text of an integer, `values` are the fields read as integers.
AnnLine(ints, values) == [ints |-> ints, values |-> values]

\* parse_annotation_format: int() of every field comes first and raises
\* ValueError on a field that is no integer; six or more values make an
\* annotation, fewer make None.
ParseAnnotation(line) ==
    IF ~line.ints THEN [kind |-> "ValueError"]
    ELSE IF Len(line.values) >= 6
         THEN [kind |-> "annotation",
               class_id |-> line.values[1],
               x1 |-> line.values[2], y1 |-> line.values[3],
               x2 |-> line.values[4], y2 |-> line.values[5]]
         ELSE [kind |-> "None"]

\* if class_mapping and class_id in class_mapping: class_id = class_mapping[...]
MapClass(mapping, class_id) ==
    IF DictHas(mapping, class_id) THEN DictGet(mapping, class_id) ELSE class_id

\* Variant: only the upper limit is applied.
ClampUpperOnly(q) == IF q[1] > q[2] THEN <<1, 1>> ELSE q

\* max(0, min(1, x)) of the rational q[1]/q[2], q[2] > 0.
Clamp(q) ==
    IF q[1] < 0 THEN <<0, 1>>
    ELSE IF q[1] > q[2] THEN <<1, 1>>
    ELSE q

\* Variant: the digits after the sixth are cut off.
Format6Truncate(q) ==
    LET n1 == q[1] * 1000
        r1 == n1 % q[2]
    IN  (n1 \div q[2]) * 1000 + (r1 * 1000) \div q[2]

\* f"{x:.6f}" of the rational q[1]/q[2] in [0, 1], as a number of millionths:
\* rounded to nearest, a tie to the even digit.  The quotient is taken three
\* digits at a time to stay within 32-bit integers.
Format6(q) ==
    LET n1 == q[1] * 1000
        r1 == n1 % q[2]
        fl == (n1 \div q[2]) * 1000 + (r1 * 1000) \div q[2]
        r2 == (r1 * 1000) % q[2]
    IN  IF 2 * r2 > q[2] THEN fl + 1
        ELSE IF 2 * r2 < q[2] THEN fl
        ELSE IF fl % 2 = 0 THEN fl ELSE fl + 1

\* The four normalized values of convert_to_yolo_format after clamping, as
\* rationals: x_center, y_center, width, height.
NormalizedBox(ann, w, h) ==
    << Clamp(<<ann.x1 + ann.x2, 2 * w>>),
       Clamp(<<ann.y1 + ann.y2, 2 * h>>),
       Clamp(<<ann.x2 - ann.x1, w>>),
       Clamp(<<ann.y2 - ann.y1, h>>) >>

\* convert_to_yolo_format: the label line "class x_center y_center width
\* height" as <<class, millionths, millionths, millionths, millionths>>; a
\* division by a zero width or height raises.
ConvertToYolo(ann, w, h, mapping) ==
    IF w = 0 \/ h = 0 THEN [kind |-> "ZeroDivisionError"]
    ELSE LET box == NormalizedBox(ann, w, h)
         IN  [kind |-> "line",
              box |-> box,
              text |-> << MapClass(mapping, ann.class_id),
                          Format6(box[1]), Format6(box[2]),
                          Format6(box[3]), Format6(box[4]) >>]

\* class_mapping of main(), and the table {10: 0}.
DefaultMapping == << <<1, 1>>, <<3, 1>>, <<10, 0>> >>
Mappings == { <<>>, << <<10, 0>> >>, DefaultMapping }

\* Pixel coordinates, inside and outside the images below.
Coordinates == {-40, 0, 100, 200, 300, 400, 2000}
ClassIds == {10, 7}
Dimensions == { <<1920, 1080>>, <<640, 480>>, <<1, 1>>, <<0, 480>> }

\* Lines of six fields, and one line of each other shape: five fields, seven
\* fields, a field that is no integer.
AnnLines ==
    {AnnLine(TRUE, <<c, x1, y1, x2, y2, 0>>) :
        c \in ClassIds, x1 \in Coordinates, y1 \in Coordinates,
        x2 \in Coordinates, y2 \in Coordinates}
    \cup {AnnLine(TRUE, <<10, 100, 200, 300, 400>>),
          AnnLine(TRUE, <<10, 100, 200, 300, 400, 0, 5>>),
          AnnLine(FALSE, <<10, 100, 200, 300, 0, 0>>)}

NoAnnotation == [kind |-> "unset"]
NoOutput == [kind |-> "unset"]

ConvertIdle ==
    /\ cvPc = "done"
    /\ cvLine = AnnLine(TRUE, <<>>)
    /\ cvDims = <<1, 1>>
    /\ cvMapping = <<>>
    /\ cvAnn = NoAnnotation
    /\ cvOut = NoOutput

\* annotation = parse_annotation_format(annotation_line)
ParseLine ==
    /\ cvPc = "parse"
    /\ cvAnn' = ParseAnnotation(cvLine)
    /\ cvPc' = IF cvAnn'.kind = "annotation" THEN "convert" ELSE "done"
    /\ UNCHANGED <<cvLine, cvDims, cvMapping, cvOut>>
    /\ UNCHANGED cvOthers

\* if annotation: yolo_annotation = convert_to_yolo_format(...)
ConvertLine ==
    /\ cvPc = "convert"
    /\ cvOut' = ConvertToYolo(cvAnn, cvDims[1], cvDims[2], cvMapping)
    /\ cvPc' = "done"
    /\ UNCHANGED <<cvLine, cvDims, cvMapping, cvAnn>>
    /\ UNCHANGED cvOthers

-----------------------------------------------------------------------------
(* url-fixer.py: get_image_suffixes *)

\* The hard-coded list of imagesets, cut to its first three entries.
PredefinedImagesets == <<"145", "146", "147">>

ImagesetIds == {PredefinedImagesets[i] : i \in 1..Len(PredefinedImagesets)}

\* --base-url: either names one imageset (.../images/1_145/) or none.
BaseUrls == {[imageset |-> "145"], [imageset |-> "146"], [imageset |-> ""]}

\* re.search(r'images/1_(\d+)/?$', base_url) and the choice of imageset_ids.
ImagesetsOf(base) ==
    IF base.imageset # "" THEN <<base.imageset>> ELSE PredefinedImagesets

\* What re.findall finds in a listing: (image_number, suffix) in page order.
MatchPairs == ImageNumbers \X Tokens

\* urlopen(imageset_url): a page with its matches, or an exception.
Responses ==
    {[ok |-> TRUE, matches |-> m] : m \in BSeq(MatchPairs, MaxMatches)}
        \cup {[ok |-> FALSE, matches |-> <<>>]}

\* A cache file line after strip().split(','): three fields, or a line of
\* another shape, which the loader passes over.
CacheLines ==
    {<<"145", n, t>> : n \in ImageNumbers, t \in Tokens}
        \cup {<<"146", "0000601", "EGD3NF">>, <<"145", "0000601">>}

NoCacheFile == [exists |-> FALSE, lines |-> <<>>]

CacheFiles ==
    {NoCacheFile}
        \cup {[exists |-> TRUE, lines |-> l] : l \in BSeq(CacheLines, MaxLines)}

\* Variant: the test looks for a file at another path, where there is none.
CacheHitWrongPath(useCache, file) == FALSE

\* Variant: an empty cache file counts as no cache.
CacheHitEmptyIsMiss(useCache, file) ==
    useCache /\ file.exists /\ file.lines # <<>>

\* if cache_file and os.path.exists(cache_file)
CacheHit(useCache, file) == useCache /\ file.exists

\* Variant: an existing entry is kept (setdefault).
StoreKeepFirst(s, iset, num, tok) ==
    LET inner == IF DictHas(s, iset) THEN DictGet(s, iset) ELSE <<>>
    IN  IF DictHas(inner, num) THEN s
        ELSE DictSet(s, iset, DictSet(inner, num, tok))

\* suffixes[imageset_id][image_number] = suffix, on a defaultdict(dict) or on
\* a dict whose inner dict is created on first use.
Store(s, iset, num, tok) ==
    LET inner == IF DictHas(s, iset) THEN DictGet(s, iset) ELSE <<>>
    IN  DictSet(s, iset, DictSet(inner, num, tok))

\* for image_number, suffix in matches: suffixes[imageset_id][...] = suffix
RECURSIVE StoreMatches(_, _, _)
StoreMatches(s, iset, matches) ==
    IF matches = <<>> THEN s
    ELSE StoreMatches(Store(s, iset, matches[1][1], matches[1][2]),
                      iset, Tail(matches))

\* for line in f: ... if len(parts) == 3: suffixes[...][...] = suffix
RECURSIVE LoadLines(_, _)
LoadLines(s, lines) ==
    IF lines = <<>> THEN s
    ELSE LET parts == lines[1]
         IN  LoadLines(IF Len(parts) = 3
                       THEN Store(s, parts[1], parts[2], parts[3])
                       ELSE s,
                       Tail(lines))

\* Variant: the line written leaves the imageset out.
InnerLinesNoImageset(iset, inner) ==
    [j \in 1..Len(inner) |-> <<inner[j][1], inner[j][2]>>]

\* for image_number, suffix in suffixes[imageset_id].items(): f.write(...)
InnerLines(iset, inner) ==
    [j \in 1..Len(inner) |-> <<iset, inner[j][1], inner[j][2]>>]

\* for imageset_id in suffixes: ...
RECURSIVE DumpLines(_)
DumpLines(s) ==
    IF s = <<>> THEN <<>>
    ELSE InnerLines(s[1][1], s[1][2]) \o DumpLines(Tail(s))

\* Variant: the try block around the whole loop, so a failure ends it.
AfterFetchStopOnError(ok, idx, n) ==
    IF ~ok \/ idx = n THEN "save" ELSE "fetch"

\* The state of the for loop after one imageset: the except branch is inside
\* the loop, so a failure moves on to the next imageset like a success.
AfterFetch(ok, idx, n) == IF idx = n THEN "save" ELSE "fetch"

\* image_suffixes[imageset_id][image_number], guarded by the two "in" tests
\* of update_urls_in_file.
LookupSuffix(s, iset, num) ==
    IF DictHas(s, iset) /\ DictHas(DictGet(s, iset), num)
    THEN DictGet(DictGet(s, iset), num)
    ELSE NotFound

NoListing == [iset |-> "", ok |-> FALSE, matches |-> <<>>]
NoLookup == [made |-> FALSE, iset |-> "", num |-> "", res |-> NotFound]
PendingStatus == [i \in ImagesetIds |-> [state |-> "pending", nums |-> {}]]
NoWriter == [written |-> FALSE, suffixes |-> <<>>, failed |-> {}]

ResolverIdle ==
    /\ rsPc = "idle"
    /\ rsArgs = [ids |-> <<>>, useCache |-> FALSE]
    /\ rsIdx = 0
    /\ suffixes = <<>>
    /\ netCalls = 0
    /\ rsFileAtStart = NoCacheFile
    /\ rsStatus = PendingStatus
    /\ rsListing = NoListing
    /\ rsLookup = NoLookup
    /\ rsPasses = 0
    /\ cacheWrites = 0
    /\ rsWriter = NoWriter

\* main() calls get_image_suffixes(args.base_url, args.cache_file).
StartPass(base) ==
    /\ rsPc = "idle"
    /\ rsPasses < MaxPasses
    /\ rsPasses' = rsPasses + 1
    /\ rsArgs' = [ids |-> ImagesetsOf(base), useCache |-> cachePath]
    /\ rsFileAtStart' = cacheFile
    /\ suffixes' = <<>>
    /\ netCalls' = 0
    /\ rsStatus' = PendingStatus
    /\ rsListing' = NoListing
    /\ rsLookup' = NoLookup
    /\ IF CacheHit(cachePath, cacheFile)
       THEN rsPc' = "load" /\ rsIdx' = 0
       ELSE rsPc' = "fetch" /\ rsIdx' = 1
    /\ UNCHANGED <<cachePath, cacheFile, cacheWrites, rsWriter>>
    /\ UNCHANGED rsOthers

\* The cache branch: the file is read whole and returned.
LoadCache ==
    /\ rsPc = "load"
    /\ suffixes' = LoadLines(<<>>, cacheFile.lines)
    /\ rsPc' = "done"
    /\ UNCHANGED <<cachePath, cacheFile, cacheWrites, rsWriter, rsArgs,
                   rsIdx, netCalls, rsFileAtStart, rsStatus, rsListing, rsLookup, rsPasses>>
    /\ UNCHANGED rsOthers

\* One iteration of "for imageset_id in imageset_ids".
FetchListing ==
    /\ rsPc = "fetch"
    /\ rsIdx <= Len(rsArgs.ids)
    /\ \E resp \in Responses :
         LET iset == rsArgs.ids[rsIdx]
         IN  /\ netCalls' = netCalls + 1
             /\ rsListing' = [iset |-> iset, ok |-> resp.ok,
                              matches |-> resp.matches]
             /\ suffixes' = IF resp.ok
                            THEN StoreMatches(suffixes, iset, resp.matches)
                            ELSE suffixes
             /\ rsStatus' = [rsStatus EXCEPT ![iset] =
                    [state |-> IF resp.ok THEN "ok" ELSE "failed",
                     nums |-> {resp.matches[j][1] :
                                   j \in 1..Len(resp.matches)}]]
             /\ rsPc' = AfterFetch(resp.ok, rsIdx, Len(rsArgs.ids))
    /\ rsIdx' = rsIdx + 1
    /\ UNCHANGED <<cachePath, cacheFile, cacheWrites, rsWriter, rsArgs,
                   rsFileAtStart, rsLookup, rsPasses>>
    /\ UNCHANGED rsOthers

\* if cache_file: write every entry, one line each; return suffixes.  The
\* loop is over: the listing it last looked at is forgotten.
SaveCache ==
    /\ rsPc = "save"
    /\ IF rsArgs.useCache
       THEN /\ cacheFile' = [exists |-> TRUE, lines |-> DumpLines(suffixes)]
            /\ cacheWrites' = cacheWrites + 1
            /\ rsWriter' = [written |-> TRUE, suffixes |-> suffixes,
                            failed |-> {i \in ImagesetIds :
                                          rsStatus[i].state = "failed"}]
       ELSE UNCHANGED <<cacheFile, cacheWrites, rsWriter>>
    /\ rsPc' = "done"
    /\ rsListing' = NoListing
    /\ UNCHANGED <<cachePath, rsArgs, rsIdx, suffixes, netCalls,
                   rsFileAtStart, rsStatus, rsLookup, rsPasses>>
    /\ UNCHANGED rsOthers

\* update_urls_in_file: one URL line naming (imageset, image number).
Lookup(iset, num) ==
    /\ rsPc = "done"
    /\ rsLookup' = [made |-> TRUE, iset |-> iset, num |-> num,
                    res |-> LookupSuffix(suffixes, iset, num)]
    /\ UNCHANGED <<cachePath, cacheFile, cacheWrites, rsWriter, rsPc, rsArgs,
                   rsIdx, suffixes, netCalls, rsFileAtStart, rsStatus, rsListing, rsPasses>>
    /\ UNCHANGED rsOthers

\* main() returns: the locals of the pass are gone, the file stays.
EndPass ==
    /\ rsPc = "done"
    /\ rsPc' = "idle"
    /\ rsArgs' = [ids |-> <<>>, useCache |-> FALSE]
    /\ rsIdx' = 0
    /\ suffixes' = <<>>
    /\ netCalls' = 0
    /\ rsFileAtStart' = NoCacheFile
    /\ rsStatus' = PendingStatus
    /\ rsListing' = NoListing
    /\ rsLookup' = NoLookup
    /\ UNCHANGED <<cachePath, cacheFile, cacheWrites, rsWriter, rsPasses>>
    /\ UNCHANGED rsOthers

-----------------------------------------------------------------------------
(* url-yolo-converter.py: get_actual_image_url, process_yaml_to_yolo,
   create_url_dataset *)

NoToken == ""

\* An image URL: <base_url>/image-<number>[_<token>].<ext>
ImageUrl(iset, num, tok, ext) ==
    [imageset |-> iset, number |-> num, token |-> tok, ext |-> ext]

\* What the listing request of get_actual_image_url comes to: an exception,
\* a page without a match, or the token of matches[0].
ListingOutcomes == {"error", "nomatch", "EGD3NF"}

\* The first extension of ['jpg', 'jpeg', 'png'] whose URL answers 200: the
\* first, a later one (png stands for both), or none.
ProbeOutcomes == {"jpg", "png", "none"}

\* get_actual_image_url: the listed file; else the first extension that
\* answers; else the best guess image-<number>.jpg.
GetActualImageUrl(iset, num, listing, probe) ==
    IF listing \notin {"error", "nomatch"}
    THEN ImageUrl(iset, num, listing, "jpg")
    ELSE IF probe # "none"
         THEN ImageUrl(iset, num, NoToken, probe)
         ELSE ImageUrl(iset, num, NoToken, "jpg")

\* The annotation loop of process_yaml_to_yolo: the label lines so far, or
\* the exception that parse or convert raised.
RECURSIVE ConvertAll(_, _, _, _, _)
ConvertAll(lines, w, h, mapping, acc) ==
    IF lines = <<>> THEN [kind |-> "lines", lines |-> acc]
    ELSE LET ann == ParseAnnotation(lines[1])
         IN  IF ann.kind = "ValueError" THEN [kind |-> "ValueError"]
             ELSE IF ann.kind = "None"
                  THEN ConvertAll(Tail(lines), w, h, mapping, acc)
                  ELSE LET out == ConvertToYolo(ann, w, h, mapping)
                       IN  IF out.kind # "line" THEN [kind |-> out.kind]
                           ELSE ConvertAll(Tail(lines), w, h, mapping,
                                           Append(acc, out.text))

GoodLine == AnnLine(TRUE, <<10, 100, 200, 300, 400, 0>>)
ShortLine == AnnLine(TRUE, <<10, 100, 200>>)
NonIntLine == AnnLine(FALSE, <<10, 100, 200, 300, 0, 0>>)

AnnLists ==
    { <<>>, <<GoodLine>>, <<ShortLine>>, <<NonIntLine>>,
      <<GoodLine, NonIntLine>>, <<ShortLine, GoodLine>> }

\* The entries of data['images']: a meta string that does not match, or one
\* that gives the image number and the dimensions, and the annotation lines.
Records ==
    {[metaOk |-> FALSE, number |-> "", dims |-> <<0, 0>>, anns |-> <<>>]}
    \cup {[metaOk |-> TRUE, number |-> n, dims |-> <<1920, 1080>>, anns |-> a] :
            n \in ImageNumbers, a \in AnnLists}
    \cup {[metaOk |-> TRUE, number |-> "0000601", dims |-> <<0, 480>>,
           anns |-> <<GoodLine>>]}

\* annotation_files as find_annotation_files built it, and the files among
\* them that cannot be opened.
AnnotatedImagesets == {"145", "146", "148"}
UnreadableFiles == {"148"}

\* --imagesets: two with annotations, one without an annotation file, one
\* whose file cannot be read.
ImagesetArgs == { <<"145", "147", "148", "146">> }

\* --split-ratio as <<numerator, denominator>>: 0.5, 0.8 (the default), and
\* two values outside [0, 1]: 1.5 and -0.5.
Ratios == { <<1, 2>>, <<4, 5>>, <<3, 2>>, <<-1, 2>> }

\* The arguments of create_url_dataset: as main passes them, with its
\* class_mapping, or with the defaults of the signature (class_mapping=None,
\* split_ratio=0.8, verify_urls=False).
AssembleArgs ==
    [imagesets : ImagesetArgs, ratio : Ratios, verify : BOOLEAN,
     mapping : {DefaultMapping}]
        \cup [imagesets : ImagesetArgs, ratio : {<<4, 5>>}, verify : {FALSE},
              mapping : {<<>>}]

\* Variant: the split index rounded up.
SplitIndexRoundUp(n, r) ==
    IF n * r[1] >= 0 THEN (n * r[1] + r[2] - 1) \div r[2]
    ELSE -((-(n * r[1])) \div r[2])

\* split_idx = int(len(image_label_pairs) * split_ratio): int() cuts towards
\* zero.
SplitIndex(n, r) ==
    IF n * r[1] >= 0 THEN (n * r[1]) \div r[2]
    ELSE -((-(n * r[1])) \div r[2])

\* Where a slice bound k falls in a list of n items: list[:k] is the first
\* SliceBound(n, k) items and list[k:] the rest.
SliceBound(n, k) ==
    IF k >= 0 THEN (IF k < n THEN k ELSE n)
    ELSE (IF n + k > 0 THEN n + k ELSE 0)

\* image_label_pairs[:split_idx] and image_label_pairs[split_idx:]
TrainPairs(l, k) == SubSeq(l, 1, SliceBound(Len(l), k))
ValPairs(l, k) == SubSeq(l, SliceBound(Len(l), k) + 1, Len(l))

\* random.shuffle(image_label_pairs): any order.
Shuffles(l) ==
    {[i \in 1..Len(l) |-> l[p[i]]] : p \in Permutations(1..Len(l))}

\* A directory after shutil.copy of the label of each pair, in order.
RECURSIVE CopyLabels(_, _, _)
CopyLabels(dir, ps, temp) ==
    IF ps = <<>> THEN dir
    ELSE CopyLabels((ps[1].label[2] :> temp[ps[1].label]) @@ dir,
                    Tail(ps), temp)

\* (image_url, new_label_path) of each pair, for train_data or val_data.
Placed(ps, split) ==
    [i \in 1..Len(ps) |->
        [url |-> ps[i].url, label |-> <<split, ps[i].label[2]>>]]

Urls(data) == [i \in 1..Len(data) |-> data[i].url]

RECURSIVE SeqToBag(_)
SeqToBag(l) ==
    IF l = <<>> THEN EmptyBag ELSE SetToBag({l[1]}) (+) SeqToBag(Tail(l))

EmptyDir == [x \in {} |-> <<>>]
Unwritten == [written |-> FALSE, urls |-> <<>>]
NoManifest == [written |-> FALSE, nc |-> 0, names |-> <<>>]

AssembleIdle ==
    /\ asmPc = "idle"
    /\ asmArgs = [imagesets |-> <<>>, ratio |-> <<4, 5>>, verify |-> FALSE,
                  mapping |-> <<>>]
    /\ asmIdx = 0
    /\ asmRead = 0
    /\ pairs = <<>>
    /\ trainData = <<>>
    /\ valData = <<>>
    /\ tempLabels = EmptyDir
    /\ trainLabels = EmptyDir
    /\ valLabels = EmptyDir
    /\ trainTxt = Unwritten
    /\ valTxt = Unwritten
    /\ manifest = NoManifest
    /\ asmError = "none"
    /\ asmCounts = <<>>
    /\ asmProduced = EmptyBag
    /\ asmListings = 0
    /\ asmRuns = 0

\* The for loop moves to the next imageset, or ends.
AfterImageset(idx, n) == IF idx = n THEN "finish" ELSE "imageset"

\* The head of the loop body: an imageset without an annotation file, or with
\* one that cannot be read, is passed over; else its YAML is read.
NextImageset ==
    /\ asmPc = "imageset"
    /\ LET id == asmArgs.imagesets[asmIdx]
       IN  IF id \notin AnnotatedImagesets \/ id \in UnreadableFiles
           THEN /\ asmPc' = AfterImageset(asmIdx, Len(asmArgs.imagesets))
                /\ asmIdx' = asmIdx + 1
           ELSE /\ asmPc' = "records"
                /\ asmIdx' = asmIdx
    /\ pairs' = <<>>
    /\ asmListings' = 0
    /\ UNCHANGED asmRuns
    /\ UNCHANGED <<asmArgs, asmRead, trainData, valData, tempLabels,
                   trainLabels, valLabels, trainTxt, valTxt, manifest,
                   asmError, asmCounts, asmProduced>>
    /\ UNCHANGED asmOthers

\* One entry of data['images'] in process_yaml_to_yolo.
ProcessRecord(rec, listing, probe, verified) ==
    /\ asmPc = "records"
    /\ asmRead < MaxRecords
    /\ asmRead' = asmRead + 1
    /\ asmListings' = IF rec.metaOk THEN asmListings + 1 ELSE asmListings
    /\ UNCHANGED asmRuns
    /\ LET iset == asmArgs.imagesets[asmIdx]
           url == GetActualImageUrl(iset, rec.number, listing, probe)
           res == ConvertAll(rec.anns, rec.dims[1], rec.dims[2],
                             asmArgs.mapping, <<>>)
           label == <<iset, rec.number>>
       IN  IF ~rec.metaOk \/ (asmArgs.verify /\ ~verified)
           THEN UNCHANGED <<asmPc, asmError, pairs, tempLabels>>
           ELSE IF res.kind # "lines"
           THEN /\ asmPc' = "crashed"
                /\ asmError' = res.kind
                /\ UNCHANGED <<pairs, tempLabels>>
           ELSE IF res.lines = <<>>
           THEN UNCHANGED <<asmPc, asmError, pairs, tempLabels>>
           ELSE /\ tempLabels' = (label :> res.lines) @@ tempLabels
                /\ pairs' = Append(pairs, [url |-> url, label |-> label])
                /\ UNCHANGED <<asmPc, asmError>>
    /\ UNCHANGED <<asmArgs, asmIdx, trainData, valData, trainLabels,
                   valLabels, trainTxt, valTxt, manifest, asmCounts,
                   asmProduced>>
    /\ UNCHANGED asmOthers

\* process_yaml_to_yolo returns; the pairs are shuffled, split, and their
\* labels copied to labels/train and labels/val.
SplitImageset ==
    /\ asmPc = "records"
    /\ \E shuffled \in Shuffles(pairs) :
         LET k == SplitIndex(Len(shuffled), asmArgs.ratio)
             train_pairs == TrainPairs(shuffled, k)
             val_pairs == ValPairs(shuffled, k)
         IN  /\ trainLabels' = CopyLabels(trainLabels, train_pairs, tempLabels)
             /\ valLabels' = CopyLabels(valLabels, val_pairs, tempLabels)
             /\ trainData' = trainData \o Placed(train_pairs, "train")
             /\ valData' = valData \o Placed(val_pairs, "val")
    /\ asmCounts' = Append(asmCounts, Len(pairs))
    /\ asmProduced' = asmProduced (+) SeqToBag(pairs)
    /\ pairs' = <<>>
    /\ asmPc' = AfterImageset(asmIdx, Len(asmArgs.imagesets))
    /\ asmIdx' = asmIdx + 1
    /\ UNCHANGED <<asmArgs, asmRead, tempLabels, trainTxt, valTxt, manifest,
                   asmError, asmListings, asmRuns>>
    /\ UNCHANGED asmOthers

\* train.txt, val.txt and dataset.yaml are written, temp_labels removed.
Finish ==
    /\ asmPc = "finish"
    /\ trainTxt' = [written |-> TRUE, urls |-> Urls(trainData)]
    /\ valTxt' = [written |-> TRUE, urls |-> Urls(valData)]
    /\ manifest' = [written |-> TRUE,
                    nc |-> IF asmArgs.mapping # <<>>
                           THEN Len(asmArgs.mapping) ELSE 2,
                    names |-> <<"red", "blue">>]
    /\ tempLabels' = EmptyDir
    /\ asmPc' = "done"
    /\ UNCHANGED <<asmArgs, asmIdx, asmRead, pairs, trainData, valData,
                   trainLabels, valLabels, asmError, asmCounts, asmProduced,
                   asmListings, asmRuns>>
    /\ UNCHANGED asmOthers

\* create_url_dataset is run again into the same output directory, after a
\* run that ended or was ended by an exception: its lists start empty, the
\* directories and files are as the earlier run left them.
Rerun ==
    /\ asmPc \in {"done", "crashed"}
    /\ asmRuns < MaxRuns
    /\ asmRuns' = asmRuns + 1
    /\ asmPc' = "imageset"
    /\ asmIdx' = 1
    /\ pairs' = <<>>
    /\ trainData' = <<>>
    /\ valData' = <<>>
    /\ asmError' = "none"
    /\ asmCounts' = <<>>
    /\ asmProduced' = EmptyBag
    /\ asmListings' = 0
    /\ UNCHANGED <<asmArgs, asmRead, tempLabels, trainLabels, valLabels,
                   trainTxt, valTxt, manifest>>
    /\ UNCHANGED asmOthers

-----------------------------------------------------------------------------
(* url-updater.py: update_label_files *)

\* The names a label directory may hold:
\*   plain     image-<number>.txt
\*   suffixed  image-<number>_<token>.txt
\*   double    image-<number>.txt.txt
\*   other     notes.txt
\*   image     image-<number>.jpg
LabelName(kind, num, tok) == [kind |-> kind, number |-> num, token |-> tok]

LabelNames ==
    { LabelName("plain", "0000601", NoToken),
      LabelName("plain", "0000602", NoToken),
      LabelName("suffixed", "0000601", "EGD3NF"),
      LabelName("double", "0000601", NoToken),
      LabelName("other", "", NoToken),
      LabelName("image", "0000601", NoToken) }

\* f.endswith('.txt')
EndsWithTxt(f) == f.kind # "image"

\* re.match(r'image-(\d+)\.txt', label_file): anchored at the start only, so
\* image-<number>.txt.txt matches too.
MatchesLabel(f) == f.kind \in {"plain", "double"}

\* re.search(r'image-(\d+)_([A-Za-z0-9]+)\.jpg', url)
MatchesSuffixedUrl(u) == u.token # NoToken /\ u.ext = "jpg"

\* The lines a URL file may hold.
UrlLines ==
    { ImageUrl("145", "0000601", "EGD3NF", "jpg"),
      ImageUrl("145", "0000602", "X7", "jpg"),
      ImageUrl("146", "0000601", "X7", "jpg"),
      ImageUrl("145", "0000602", NoToken, "jpg") }

\* for url in urls: ... url_map[image_num] = random_chars
RECURSIVE BuildUrlMap(_, _)
BuildUrlMap(map, urls) ==
    IF urls = <<>> THEN map
    ELSE BuildUrlMap(IF MatchesSuffixedUrl(urls[1])
                     THEN DictSet(map, urls[1].number, urls[1].token)
                     ELSE map,
                     Tail(urls))

\* new_filename = f"image-{image_num}_{url_map[image_num]}.txt"
NewFilename(f, map) == LabelName("suffixed", f.number, DictGet(map, f.number))

\* os.rename(src, dst): dst takes the file, replacing one already there.
Rename(dir, src, dst) ==
    [x \in (DOMAIN dir \ {src}) \cup {dst} |->
        IF x = dst THEN dir[src] ELSE dir[x]]

\* Variant: the count is raised before os.rename is tried.
CountAttempt(count, ok) == count + 1

\* renamed_count += 1 follows os.rename inside the try block.
CountRename(count, ok) == IF ok THEN count + 1 ELSE count

SyncIdle ==
    /\ syPc = "idle"
    /\ syUrlFile = [exists |-> FALSE, lines |-> <<>>]
    /\ syDir = EmptyDir
    /\ syDir0 = EmptyDir
    /\ syMap = <<>>
    /\ syTodo = {}
    /\ syCount = 0
    /\ syLog = {}

\* The head of update_label_files: return if the URL file is missing; else
\* build url_map and list the .txt files of the directory.
ReadUrls ==
    /\ syPc = "start"
    /\ IF ~syUrlFile.exists
       THEN /\ syPc' = "done"
            /\ UNCHANGED <<syMap, syTodo>>
       ELSE /\ syMap' = BuildUrlMap(<<>>, syUrlFile.lines)
            /\ syTodo' = {f \in DOMAIN syDir : EndsWithTxt(f)}
            /\ syPc' = "files"
    /\ UNCHANGED <<syUrlFile, syDir, syDir0, syCount, syLog>>
    /\ UNCHANGED syOthers

\* One label file of current_labels, in the order os.listdir gave; os.rename
\* succeeds or raises.
ProcessLabel(f, ok) ==
    /\ syPc = "files"
    /\ f \in syTodo
    /\ syTodo' = syTodo \ {f}
    /\ IF ~MatchesLabel(f)
       THEN /\ syLog' = syLog \cup {<<"nonstandard", f>>}
            /\ UNCHANGED <<syDir, syCount>>
       ELSE IF ~DictHas(syMap, f.number)
       THEN /\ syLog' = syLog \cup {<<"unmatched", f>>}
            /\ UNCHANGED <<syDir, syCount>>
       ELSE /\ syDir' = IF ok THEN Rename(syDir, f, NewFilename(f, syMap))
                        ELSE syDir
            /\ syCount' = CountRename(syCount, ok)
            /\ syLog' = syLog \cup {<<IF ok THEN "renamed" ELSE "error", f>>}
    /\ UNCHANGED <<syPc, syUrlFile, syDir0, syMap>>
    /\ UNCHANGED syOthers

\* The loop is over: the total is printed.
EndSync ==
    /\ syPc = "files"
    /\ syTodo = {}
    /\ syPc' = "done"
    /\ UNCHANGED <<syUrlFile, syDir, syDir0, syMap, syTodo, syCount, syLog>>
    /\ UNCHANGED syOthers

-----------------------------------------------------------------------------
(* download.py: download_images *)

\* ThreadPoolExecutor(max_workers=20)
max_workers == 20

\* A URL: the part before the last '/', the last path component, the query.
FetchUrl(dir, base, query) == [dir |-> dir, base |-> base, query |-> query]

FetchUrls ==
    { FetchUrl("145", "image-0000601_EGD3NF.jpg", ""),
      FetchUrl("145", "image-0000602_X7.jpg", ""),
      FetchUrl("146", "image-0000601_EGD3NF.jpg", ""),
      FetchUrl("145", "image-0000601_EGD3NF.jpg", "v=2") }

\* Variant: the file is named after the directory part of the URL.
FilenameOfDir(url) == url.dir

\* filename = os.path.basename(url.split('?')[0])
Filename(url) == url.base

Filenames == {Filename(u) : u \in FetchUrls}

\* What a file holds: nothing (no such file), what it held before the run,
\* nothing yet (opened for writing), or the response to a URL.
NoUrl == FetchUrl("", "", "")
Absent == [state |-> "absent", of |-> NoUrl]
Old == [state |-> "old", of |-> NoUrl]
Opened == [state |-> "opened", of |-> NoUrl]
ContentOf(url) == [state |-> "written", of |-> url]

\* Variant: the test looks for the bare file name in the working directory,
\* where no image is kept.
ExistsInCwd(files, name) == FALSE

\* os.path.exists(filepath)
Exists(files, name) == files[name] # Absent

Running == {i \in DOMAIN ftTask : ftTask[i] \in {"get", "open", "write"}}

FetchIdle ==
    /\ ftUrls = <<>>
    /\ ftFiles = [n \in Filenames |-> Absent]
    /\ ftFiles0 = ftFiles
    /\ ftTask = <<>>
    /\ ftRequests = <<>>
    /\ ftOutcome = <<>>
    /\ ftResponse = <<>>
    /\ ftInterrupted = FALSE

\* A worker takes the next URL of executor.map and download_image tests
\* whether its file is there.
CheckExists(i) ==
    /\ i \in DOMAIN ftTask
    /\ ftTask[i] = "queued"
    /\ \A j \in 1..(i - 1) : ftTask[j] # "queued"
    /\ Cardinality(Running) < max_workers
    /\ IF Exists(ftFiles, Filename(ftUrls[i]))
       THEN /\ ftTask' = [ftTask EXCEPT ![i] = "done"]
            /\ ftOutcome' = [ftOutcome EXCEPT ![i] = "Already downloaded"]
       ELSE /\ ftTask' = [ftTask EXCEPT ![i] = "get"]
            /\ UNCHANGED ftOutcome
    /\ UNCHANGED <<ftUrls, ftFiles, ftFiles0, ftRequests, ftResponse,
                   ftInterrupted>>
    /\ UNCHANGED ftOthers

\* Variant: the status is not tested, the body of any response is written.
AfterRequestAnyStatus(result) ==
    IF result = "exception" THEN "done" ELSE "open"

\* if response.status_code == 200: the file is written; else, and in the
\* except branch, download_image prints the failure and returns.
AfterRequest(result) == IF result = "200" THEN "open" ELSE "done"

\* response = requests.get(url, timeout=10): status 200, another status, or
\* an exception.
Request(i, result) ==
    /\ i \in DOMAIN ftTask
    /\ ftTask[i] = "get"
    /\ ftRequests' = [ftRequests EXCEPT ![i] = @ + 1]
    /\ ftResponse' = [ftResponse EXCEPT ![i] = result]
    /\ ftTask' = [ftTask EXCEPT ![i] = AfterRequest(result)]
    /\ ftOutcome' = [ftOutcome EXCEPT ![i] =
                        IF AfterRequest(result) # "done" THEN @
                        ELSE IF result = "exception" THEN "Error"
                        ELSE "Failed"]
    /\ UNCHANGED <<ftUrls, ftFiles, ftFiles0, ftInterrupted>>
    /\ UNCHANGED ftOthers

\* with open(filepath, 'wb') as f: the file is created or emptied, or open
\* raises and the except branch prints the error.
OpenFile(i, ok) ==
    /\ i \in DOMAIN ftTask
    /\ ftTask[i] = "open"
    /\ IF ok
       THEN /\ ftFiles' = [ftFiles EXCEPT ![Filename(ftUrls[i])] = Opened]
            /\ ftTask' = [ftTask EXCEPT ![i] = "write"]
            /\ UNCHANGED ftOutcome
       ELSE /\ ftTask' = [ftTask EXCEPT ![i] = "done"]
            /\ ftOutcome' = [ftOutcome EXCEPT ![i] = "Error"]
            /\ UNCHANGED ftFiles
    /\ UNCHANGED <<ftUrls, ftFiles0, ftRequests, ftResponse, ftInterrupted>>
    /\ UNCHANGED ftOthers

\* f.write(response.content), then print Downloaded.
WriteFile(i) ==
    /\ i \in DOMAIN ftTask
    /\ ftTask[i] = "write"
    /\ ftFiles' = [ftFiles EXCEPT ![Filename(ftUrls[i])] = ContentOf(ftUrls[i])]
    /\ ftTask' = [ftTask EXCEPT ![i] = "done"]
    /\ ftOutcome' = [ftOutcome EXCEPT ![i] = "Downloaded"]
    /\ UNCHANGED <<ftUrls, ftFiles0, ftRequests, ftResponse, ftInterrupted>>
    /\ UNCHANGED ftOthers

\* The process is killed while a run is under way: every worker stops where
\* it is and the files stay as they are.
Interrupt ==
    /\ ~ftInterrupted
    /\ \E i \in DOMAIN ftTask : ftTask[i] # "done"
    /\ ftTask' = [i \in DOMAIN ftTask |-> "killed"]
    /\ ftInterrupted' = TRUE
    /\ UNCHANGED <<ftUrls, ftFiles, ftFiles0, ftRequests, ftOutcome,
                   ftResponse>>
    /\ UNCHANGED ftOthers

\* download_images is run again over the same URL file.
Refetch ==
    /\ ftTask # <<>>
    /\ \A i \in DOMAIN ftTask : ftTask[i] = "killed"
    /\ ftTask' = [i \in DOMAIN ftTask |-> "queued"]
    /\ ftRequests' = [i \in DOMAIN ftTask |-> 0]
    /\ ftOutcome' = [i \in DOMAIN ftTask |-> "none"]
    /\ ftResponse' = [i \in DOMAIN ftTask |-> "none"]
    /\ ftFiles0' = ftFiles
    /\ UNCHANGED <<ftUrls, ftFiles, ftInterrupted>>
    /\ UNCHANGED ftOthers

-----------------------------------------------------------------------------
(* Specifications: one script each *)

\* With no cache path there is no file to find.
ResolverInit ==
    /\ ResolverIdle
    /\ ConvertIdle
    /\ AssembleIdle
    /\ SyncIdle
    /\ FetchIdle
    /\ cachePath \in BOOLEAN
    /\ cacheFile \in IF cachePath THEN CacheFiles ELSE {NoCacheFile}

ResolverNext ==
    \/ \E base \in BaseUrls : StartPass(base)
    \/ LoadCache
    \/ FetchListing
    \/ SaveCache
    \/ \E iset \in ImagesetIds, num \in ImageNumbers : Lookup(iset, num)
    \/ EndPass

SpecResolver == ResolverInit /\ [][ResolverNext]_vars

ConvertInit ==
    /\ ResolverIdle
    /\ cachePath = FALSE
    /\ cacheFile = NoCacheFile
    /\ cvPc = "parse"
    /\ cvLine \in AnnLines
    /\ cvDims \in Dimensions
    /\ cvMapping \in Mappings
    /\ cvAnn = NoAnnotation
    /\ cvOut = NoOutput
    /\ AssembleIdle
    /\ SyncIdle
    /\ FetchIdle

ConvertNext == ParseLine \/ ConvertLine

SpecConvert == ConvertInit /\ [][ConvertNext]_vars

\* main() calls create_url_dataset with its class mapping; the output
\* directory is new.
AssembleInit ==
    /\ ResolverIdle
    /\ cachePath = FALSE
    /\ cacheFile = NoCacheFile
    /\ ConvertIdle
    /\ asmPc = "imageset"
    /\ asmArgs \in AssembleArgs
    /\ asmIdx = 1
    /\ asmRead = 0
    /\ pairs = <<>>
    /\ trainData = <<>>
    /\ valData = <<>>
    /\ tempLabels = EmptyDir
    /\ trainLabels = EmptyDir
    /\ valLabels = EmptyDir
    /\ trainTxt = Unwritten
    /\ valTxt = Unwritten
    /\ manifest = NoManifest
    /\ asmError = "none"
    /\ asmCounts = <<>>
    /\ asmProduced = EmptyBag
    /\ asmListings = 0
    /\ asmRuns = 1
    /\ SyncIdle
    /\ FetchIdle

AssembleNext ==
    \/ NextImageset
    \/ \E rec \in Records, listing \in ListingOutcomes,
          probe \in ProbeOutcomes, verified \in BOOLEAN :
            ProcessRecord(rec, listing, probe, verified)
    \/ SplitImageset
    \/ Finish

SpecAssemble == AssembleInit /\ [][AssembleNext]_vars

\* create_url_dataset run more than once into the same output directory.
ReassembleNext ==
    \/ AssembleNext
    \/ Rerun

SpecReassemble == AssembleInit /\ [][ReassembleNext]_vars

\* update_label_files(url_file, label_dir) on a label directory holding any
\* of the names above; the content of a file is named after the file.
SyncInit ==
    /\ ResolverIdle
    /\ cachePath = FALSE
    /\ cacheFile = NoCacheFile
    /\ ConvertIdle
    /\ AssembleIdle
    /\ syPc = "start"
    /\ syUrlFile \in
          {[exists |-> FALSE, lines |-> <<>>]}
            \cup {[exists |-> TRUE, lines |-> l] : l \in BSeq(UrlLines, MaxUrlLines)}
    /\ \E names \in SUBSET LabelNames : syDir = [f \in names |-> f]
    /\ syDir0 = syDir
    /\ syMap = <<>>
    /\ syTodo = {}
    /\ syCount = 0
    /\ syLog = {}
    /\ FetchIdle

SyncNext ==
    \/ ReadUrls
    \/ \E f \in LabelNames, ok \in BOOLEAN : ProcessLabel(f, ok)
    \/ EndSync

SpecSync == SyncInit /\ [][SyncNext]_vars

\* download_images(split) on the URLs of <split>.txt and an image directory
\* that may hold files of an earlier run.
FetchInit ==
    /\ ResolverIdle
    /\ cachePath = FALSE
    /\ cacheFile = NoCacheFile
    /\ ConvertIdle
    /\ AssembleIdle
    /\ SyncIdle
    /\ ftUrls \in BSeq(FetchUrls, MaxUrls)
    /\ ftFiles \in [Filenames -> {Absent, Old}]
    /\ ftFiles0 = ftFiles
    /\ ftTask = [i \in DOMAIN ftUrls |-> "queued"]
    /\ ftRequests = [i \in DOMAIN ftUrls |-> 0]
    /\ ftOutcome = [i \in DOMAIN ftUrls |-> "none"]
    /\ ftResponse = [i \in DOMAIN ftUrls |-> "none"]
    /\ ftInterrupted = FALSE

FetchNext ==
    \/ \E i \in 1..MaxUrls : CheckExists(i)
    \/ \E i \in 1..MaxUrls, result \in {"200", "status", "exception"} :
          Request(i, result)
    \/ \E i \in 1..MaxUrls, ok \in BOOLEAN : OpenFile(i, ok)
    \/ \E i \in 1..MaxUrls : WriteFile(i)

SpecFetch == FetchInit /\ [][FetchNext]_vars

\* The workers of the pool keep running: a step that can be taken is taken.
SpecFetchLive == SpecFetch /\ WF_vars(FetchNext)

\* A run that is killed at some point, and the run that follows it.
RefetchNext ==
    \/ FetchNext
    \/ Interrupt
    \/ Refetch

SpecRefetch == FetchInit /\ [][RefetchNext]_vars

-----------------------------------------------------------------------------
(* Properties of url-fixer.py *)

\* The pass in progress found a cache file and was given its path.
ServedFromCache ==
    rsPc # "idle" /\ rsArgs.useCache /\ rsFileAtStart.exists

\* The indices of the well-formed lines of a cache file that name a key.
KeyLines(lines, iset, num) ==
    {i \in 1..Len(lines) :
        Len(lines[i]) = 3 /\ lines[i][1] = iset /\ lines[i][2] = num}

\* The indices of the matches of a listing that name an image number.
NumMatches(matches, num) == {j \in 1..Len(matches) : matches[j][1] = num}

Least(S) == CHOOSE x \in S : \A y \in S : x <= y
Greatest(S) == CHOOSE x \in S : \A y \in S : x >= y

\* The image numbers that have an entry under an imageset.
EntryNums(s, iset) ==
    IF DictHas(s, iset) THEN DictKeys(DictGet(s, iset)) ELSE {}

\* C3: a pass that finds the cache file issues no network call, for any key
\* looked up: a key of the file resolves to a token of the file, a key missing
\* from the file resolves to NotFound.
C3_CachedPassUsesNoNetwork ==
    ServedFromCache =>
        /\ netCalls = 0
        /\ rsPc \in {"load", "done"}
        /\ rsLookup.made =>
             LET ks == KeyLines(rsFileAtStart.lines, rsLookup.iset, rsLookup.num)
             IN  IF ks = {}
                 THEN rsLookup.res = NotFound
                 ELSE rsLookup.res \in {rsFileAtStart.lines[i][3] : i \in ks}

\* A key missing from the cache file was looked up and no call was made.
C3_Witness ==
    /\ ServedFromCache
    /\ rsFileAtStart.lines # <<>>
    /\ rsLookup.made
    /\ KeyLines(rsFileAtStart.lines, rsLookup.iset, rsLookup.num) = {}
    /\ rsLookup.res = NotFound

\* C4 as claimed: after a listing or a cache file is read, every key holds
\* the token of its first observation.
C4_FirstTokenKept ==
    /\ rsListing.ok =>
         \A j \in 1..Len(rsListing.matches) :
            LET num == rsListing.matches[j][1]
                first == Least(NumMatches(rsListing.matches, num))
            IN  LookupSuffix(suffixes, rsListing.iset, num)
                    = rsListing.matches[first][2]
    /\ (ServedFromCache /\ rsPc = "done") =>
         \A i \in 1..Len(rsFileAtStart.lines) :
            LET l == rsFileAtStart.lines[i]
            IN  Len(l) = 3 =>
                  LookupSuffix(suffixes, l[1], l[2]) =
                    rsFileAtStart.lines[
                        Least(KeyLines(rsFileAtStart.lines, l[1], l[2]))][3]

\* C4 as amended: after a listing or a cache file is read, every key holds
\* the token of its last observation (a later observation overwrites).
C4_LastTokenKept ==
    /\ rsListing.ok =>
         \A j \in 1..Len(rsListing.matches) :
            LET num == rsListing.matches[j][1]
                last == Greatest(NumMatches(rsListing.matches, num))
            IN  LookupSuffix(suffixes, rsListing.iset, num)
                    = rsListing.matches[last][2]
    /\ (ServedFromCache /\ rsPc = "done") =>
         \A i \in 1..Len(rsFileAtStart.lines) :
            LET l == rsFileAtStart.lines[i]
            IN  Len(l) = 3 =>
                  LookupSuffix(suffixes, l[1], l[2]) =
                    rsFileAtStart.lines[
                        Greatest(KeyLines(rsFileAtStart.lines, l[1], l[2]))][3]

\* A listing named one image number twice with different tokens.
C4_Witness ==
    /\ rsListing.ok
    /\ \E j, k \in 1..Len(rsListing.matches) :
          /\ j < k
          /\ rsListing.matches[j][1] = rsListing.matches[k][1]
          /\ rsListing.matches[j][2] # rsListing.matches[k][2]
          /\ LookupSuffix(suffixes, rsListing.iset, rsListing.matches[k][1])
                = rsListing.matches[k][2]

\* C10: in a pass without a cache file, an imageset whose listing fetch failed
\* has no entry, every imageset fetched has an entry for each image number of
\* its listing, every requested imageset has been fetched when the loop ends,
\* and the file written holds the same entries.
C10_FetchFailureIsLocal ==
    (rsPc \in {"fetch", "save", "done"} /\ ~ServedFromCache) =>
        /\ \A k \in 1..Len(rsArgs.ids) :
              LET st == rsStatus[rsArgs.ids[k]]
              IN  /\ (k < rsIdx) = (st.state # "pending")
                  /\ st.state = "failed" => EntryNums(suffixes, rsArgs.ids[k]) = {}
                  /\ st.state = "ok" => EntryNums(suffixes, rsArgs.ids[k]) = st.nums
        /\ rsPc \in {"save", "done"} => rsIdx = Len(rsArgs.ids) + 1
        /\ (rsPc = "done" /\ rsArgs.useCache) =>
              /\ cacheFile.exists
              /\ \A i \in ImagesetIds, n \in ImageNumbers :
                    (KeyLines(cacheFile.lines, i, n) # {})
                        = (n \in EntryNums(suffixes, i))

\* The middle imageset failed; the ones before and after it are in the cache
\* returned and in the file written.
C10_Witness ==
    /\ rsPc = "done"
    /\ ~ServedFromCache
    /\ rsArgs.useCache
    /\ rsArgs.ids = PredefinedImagesets
    /\ rsStatus["146"].state = "failed"
    /\ EntryNums(suffixes, "145") # {}
    /\ EntryNums(suffixes, "147") = ImageNumbers
    /\ KeyLines(cacheFile.lines, "147", "0000602") # {}
    /\ KeyLines(cacheFile.lines, "146", "0000602") = {}

\* C11: a pass that loads the file an earlier pass wrote returns the mapping
\* that pass had (same imagesets, same image numbers, same tokens); a file
\* whose only line is 145,0000601,EGD3NF loads so that ("145", "0000601")
\* resolves to EGD3NF.
C11_CacheRoundTrip ==
    (rsPc = "done" /\ ServedFromCache) =>
        /\ rsWriter.written => suffixes = rsWriter.suffixes
        /\ rsFileAtStart.lines = << <<"145", "0000601", "EGD3NF">> >> =>
              LookupSuffix(suffixes, "145", "0000601") = "EGD3NF"

\* A mapping with two imagesets, one of them with two image numbers, was
\* written by one pass and loaded by the next.
C11_Witness ==
    /\ rsPc = "done"
    /\ ServedFromCache
    /\ rsWriter.written
    /\ Len(rsWriter.suffixes) >= 2
    /\ \E i \in ImagesetIds : EntryNums(rsWriter.suffixes, i) = ImageNumbers
    /\ suffixes = rsWriter.suffixes

\* C18: over all passes the cache file is written at most once, in the save
\* step that follows the loop of a pass that found no file; a later pass
\* returns what the file holds and leaves the file as it is, so an imageset
\* whose fetch failed in the writing pass resolves nothing in a later pass.
C18_CacheWrittenOnce ==
    /\ [](cacheWrites <= 1)
    /\ [][(cacheFile' # cacheFile \/ cacheWrites' # cacheWrites) =>
            /\ rsPc = "save" /\ rsPc' = "done"
            /\ rsIdx = Len(rsArgs.ids) + 1
            /\ ~rsFileAtStart.exists]_vars
    /\ []((rsPc = "done" /\ ServedFromCache /\ rsWriter.written) =>
            /\ cacheFile = rsFileAtStart
            /\ DumpLines(suffixes) = cacheFile.lines
            /\ \A i \in rsWriter.failed, n \in ImageNumbers :
                  LookupSuffix(suffixes, i, n) = NotFound
            /\ rsLookup.made /\ rsLookup.iset \in rsWriter.failed =>
                  rsLookup.res = NotFound)

\* Every fetch of the first pass failed and an empty file was written; the
\* second pass loaded it and a lookup found nothing.
C18_Witness ==
    /\ rsPc = "done"
    /\ ServedFromCache
    /\ rsPasses = 2
    /\ cacheWrites = 1
    /\ rsWriter.written
    /\ rsWriter.failed = ImagesetIds
    /\ cacheFile = [exists |-> TRUE, lines |-> <<>>]
    /\ rsLookup.made
    /\ rsLookup.res = NotFound

-----------------------------------------------------------------------------
(* Properties of the conversion *)

\* The box of the worked example: class 10, (100, 200) to (300, 400).
ExampleLine == AnnLine(TRUE, <<10, 100, 200, 300, 400, 0>>)

ExampleConverted ==
    /\ cvLine = ExampleLine
    /\ cvDims = <<1920, 1080>>
    /\ cvMapping = << <<10, 0>> >>
    /\ cvPc = "done"

\* C5 as claimed: the example converts to "0 0.104167 0.184259 0.104167
\* 0.185185".
C5_ExampleAsClaimed ==
    ExampleConverted =>
        /\ cvOut.kind = "line"
        /\ cvOut.text = <<0, 104167, 184259, 104167, 185185>>

\* C5 as amended: the example converts to "0 0.104167 0.277778 0.104167
\* 0.185185", which is what the four formulas give to six decimals.
C5_ExampleLine ==
    ExampleConverted =>
        /\ cvOut.kind = "line"
        /\ cvOut.text = <<0, 104167, 277778, 104167, 185185>>

\* The example has been converted.
C5_Witness == ExampleConverted /\ cvOut.kind = "line"

\* C6: for positive width and height, every value of a produced box lies in
\* [0, 1], and so does every number of its label line.
C6_BoxWithinUnit ==
    (cvOut.kind = "line" /\ cvDims[1] > 0 /\ cvDims[2] > 0) =>
        \A k \in 1..4 :
            /\ 0 <= cvOut.box[k][1]
            /\ cvOut.box[k][1] <= cvOut.box[k][2]
            /\ cvOut.box[k][2] > 0
            /\ cvOut.text[k + 1] \in 0..1000000

\* A box with x2 < x1, a negative y1 and a corner right of the image.
C6_Witness ==
    /\ cvOut.kind = "line"
    /\ cvAnn.x2 < cvAnn.x1
    /\ cvAnn.y1 < 0
    /\ cvAnn.x1 > cvDims[1]
    /\ cvOut.box[3] = <<0, 1>>
    /\ cvOut.box[1] = <<1, 1>>

-----------------------------------------------------------------------------
(* Properties of the assembly *)

RECURSIVE SumSeq(_)
SumSeq(l) == IF l = <<>> THEN 0 ELSE l[1] + SumSeq(Tail(l))

\* floor(n * r) for a ratio r >= 0.
FloorOf(n, r) == (n * r[1]) \div r[2]

RatioInUnit(r) == 0 <= r[1] /\ r[1] <= r[2]

\* The pairs of train_data or val_data as process_yaml_to_yolo returned them:
\* the URL and the temp label of the imageset the URL names.
Sources(data) ==
    [i \in 1..Len(data) |->
        [url |-> data[i].url,
         label |-> <<data[i].url.imageset, data[i].label[2]>>]]

Range(l) == {l[i] : i \in 1..Len(l)}

\* C1 as claimed: with N pairs in the whole run, train has floor(r * N)
\* entries, val has the rest, and the two lists are disjoint and hold every
\* pair once.
C1_SplitOfTotal ==
    (asmPc = "done" /\ RatioInUnit(asmArgs.ratio)) =>
        LET N == SumSeq(asmCounts)
        IN  /\ Len(trainData) = FloorOf(N, asmArgs.ratio)
            /\ Len(valData) = N - Len(trainData)
            /\ SeqToBag(Sources(trainData) \o Sources(valData)) = asmProduced

\* C1 as amended: train has the sum over the imagesets of int(r * n_i)
\* entries for 0 <= r <= 1, n_i being the pairs of imageset i; for every r,
\* val has the rest, train and val together hold every pair as often as it
\* was produced, none in both lists unless it was produced twice, and the
\* two URL files list them.
C1_SplitPerImageset ==
    asmPc = "done" =>
        LET N == SumSeq(asmCounts)
            perSet == [i \in 1..Len(asmCounts) |->
                          FloorOf(asmCounts[i], asmArgs.ratio)]
        IN  /\ RatioInUnit(asmArgs.ratio) => Len(trainData) = SumSeq(perSet)
            /\ Len(valData) = N - Len(trainData)
            /\ SeqToBag(Sources(trainData) \o Sources(valData)) = asmProduced
            /\ \A p \in Range(Sources(trainData)) \cap Range(Sources(valData)) :
                  CopiesIn(p, asmProduced) >= 2
            /\ trainTxt = [written |-> TRUE, urls |-> Urls(trainData)]
            /\ valTxt = [written |-> TRUE, urls |-> Urls(valData)]

\* Two imagesets gave pairs and both lists are filled.
C1_Witness ==
    /\ asmPc = "done"
    /\ RatioInUnit(asmArgs.ratio)
    /\ asmCounts = <<2, 1>>
    /\ trainData # <<>>
    /\ valData # <<>>

\* C2 as claimed: every pair emitted, and every URL written to train.txt or
\* val.txt, carries a suffix token resolved from the directory listing.
C2_OnlyResolvedPairsEmitted ==
    /\ \A i \in 1..Len(pairs) : pairs[i].url.token # NoToken
    /\ \A i \in 1..Len(trainData) : trainData[i].url.token # NoToken
    /\ \A i \in 1..Len(valData) : valData[i].url.token # NoToken
    /\ \A i \in 1..Len(trainTxt.urls) : trainTxt.urls[i].token # NoToken
    /\ \A i \in 1..Len(valTxt.urls) : valTxt.urls[i].token # NoToken

\* C9 as claimed: no parse error ends the run.
C9_ParseErrorSkipsOnlyTheLine ==
    ~(asmPc = "crashed" /\ asmError = "ValueError")

\* C13: while the records of an imageset are resolved, at most one request
\* for the directory listing of that imageset has been made, however many
\* image numbers were resolved.
C13_OneListingPerImageset ==
    asmPc \in {"records", "imageset", "finish", "done"} => asmListings <= 1

\* The label file names of the pairs of a split list.
LabelFiles(data) == {data[i].label[2] : i \in 1..Len(data)}

\* C12: when a run has ended, labels/train holds exactly the label files of
\* the run's train pairs and labels/val exactly those of its val pairs; no
\* file of an earlier run is left.
C12_SplitDirsRebuilt ==
    asmPc = "done" =>
        /\ DOMAIN trainLabels = LabelFiles(trainData)
        /\ DOMAIN valLabels = LabelFiles(valData)

\* The values of class_mapping: the class ids it can produce.
TargetClasses(mapping) == {mapping[i][2] : i \in 1..Len(mapping)}

\* C17: in a manifest written, nc is the number of entries of names and every
\* class id the mapping can produce is an index of names.
C17_ManifestClassCount ==
    manifest.written =>
        /\ manifest.nc = Len(manifest.names)
        /\ \A c \in TargetClasses(asmArgs.mapping) :
              c \in 0..(Len(manifest.names) - 1)

-----------------------------------------------------------------------------
(* Properties of url-updater.py *)

\* The lines of the URL file that give a token for an image number.
TokenLines(lines, num) ==
    {i \in 1..Len(lines) : MatchesSuffixedUrl(lines[i]) /\ lines[i].number = num}

\* The name a plain label file is to take: the token of the last such line.
Target(lines, f) ==
    LabelName("suffixed", f.number,
              lines[Greatest(TokenLines(lines, f.number))].token)

PlainLabels == {f \in DOMAIN syDir0 : f.kind = "plain"}

Kept(f) == f \in DOMAIN syDir /\ syDir[f] = syDir0[f]

Unmatched(f) == Kept(f) /\ <<"unmatched", f>> \in syLog

Renamed(f) ==
    /\ f \notin DOMAIN syDir
    /\ Target(syUrlFile.lines, f) \in DOMAIN syDir
    /\ <<"renamed", f>> \in syLog

\* C8 as claimed: every file image-<number>.txt whose number has a token is
\* renamed to image-<number>_<token>.txt, every other one keeps its name and
\* content and is reported, and the count is the number of files renamed.
C8_EveryMatchedLabelRenamed ==
    (syPc = "done" /\ syUrlFile.exists) =>
        /\ \A f \in PlainLabels :
              IF TokenLines(syUrlFile.lines, f.number) # {}
              THEN Renamed(f)
              ELSE Unmatched(f)
        /\ syCount = Cardinality(DOMAIN syDir0 \ DOMAIN syDir)

\* C8 as amended: a file image-<number>.txt whose number has a token is
\* renamed to image-<number>_<token>.txt unless os.rename raises, and then it
\* keeps its name and content and an error is printed; every file whose
\* number has no token keeps its name and content and is reported; the count
\* is the number of files renamed.
C8_MatchedLabelRenamedUnlessError ==
    (syPc = "done" /\ syUrlFile.exists) =>
        /\ \A f \in PlainLabels :
              IF TokenLines(syUrlFile.lines, f.number) # {}
              THEN \/ Renamed(f)
                   \/ Kept(f) /\ <<"error", f>> \in syLog
              ELSE Unmatched(f)
        /\ syCount = Cardinality(DOMAIN syDir0 \ DOMAIN syDir)

\* One file was renamed, one had no token and one could not be renamed.
C8_Witness ==
    /\ syPc = "done"
    /\ syUrlFile.exists
    /\ \E f \in PlainLabels : Renamed(f)
    /\ \E f \in DOMAIN syDir0 : <<"error", f>> \in syLog /\ Kept(f)
    /\ syCount = 1

-----------------------------------------------------------------------------
(* Properties of download.py *)

\* The step in which download_image for URL i tests for its file.
Tested(i) == ftTask[i] = "queued" /\ ftTask'[i] # "queued"

\* C7: when the destination file of a URL is already there, download_image
\* makes no request for it, leaves every file as it is, and reports the URL
\* as already downloaded.
C7_ExistingFileSkipped ==
    [][\A i \in DOMAIN ftTask :
          (Tested(i) /\ ftFiles[Filename(ftUrls[i])] # Absent) =>
              /\ ftTask'[i] = "done"
              /\ ftOutcome'[i] = "Already downloaded"
              /\ ftRequests'[i] = 0
              /\ ftFiles' = ftFiles]_vars

\* A run is over in which a URL found the file of an earlier run, was
\* reported as already downloaded with no request made, and the file is as
\* it was.
C7_Witness ==
    /\ \A i \in DOMAIN ftTask : ftTask[i] = "done"
    /\ \E i \in DOMAIN ftTask :
          /\ ftFiles0[Filename(ftUrls[i])] = Old
          /\ ftOutcome[i] = "Already downloaded"
          /\ ftRequests[i] = 0
          /\ ftFiles[Filename(ftUrls[i])] = Old

\* The URLs of the list have pairwise distinct last path components.
DistinctBasenames ==
    \A i, j \in DOMAIN ftUrls : i # j => ftUrls[i].base # ftUrls[j].base

AllDone == \A i \in DOMAIN ftTask : ftTask[i] = "done"

\* C14: when a run was killed and the next run has ended with every URL
\* downloaded or skipped, the file of every URL holds a complete response
\* (or what it held before the first run), never a file cut short.
C14_RefetchCompletesFiles ==
    (/\ ftInterrupted
     /\ AllDone
     /\ DistinctBasenames
     /\ \A i \in DOMAIN ftTask :
           ftOutcome[i] \in {"Already downloaded", "Downloaded"}) =>
        \A i \in DOMAIN ftUrls :
            ftFiles[Filename(ftUrls[i])] \in {ContentOf(ftUrls[i]), Old}

\* C15: every run ends with every URL at one outcome; an outcome once reached
\* stays; a URL whose request failed is done, is reported as failed, and the
\* failure changed no file; no URL is requested twice.
C15_EveryUrlOneOutcome ==
    /\ <>[]AllDone
    /\ [](\A i \in DOMAIN ftTask :
            /\ (ftTask[i] = "done") =
                 (ftOutcome[i] \in {"Already downloaded", "Downloaded",
                                    "Failed", "Error"})
            /\ ftTask[i] # "done" => ftOutcome[i] = "none"
            /\ ftResponse[i] \in {"status", "exception"} =>
                 ftTask[i] = "done" /\ ftOutcome[i] \in {"Failed", "Error"}
            /\ ftRequests[i] <= 1)
    /\ [][\A i \in DOMAIN ftTask :
            /\ ftOutcome[i] # "none" => ftOutcome'[i] = ftOutcome[i]
            /\ (ftResponse[i] = "none"
                  /\ ftResponse'[i] \in {"status", "exception"}) =>
                 ftFiles' = ftFiles]_vars

\* A run has ended in which the request of the first URL failed, no file was
\* made for it, and the second URL was downloaded.
C15_Witness ==
    /\ AllDone
    /\ Len(ftUrls) >= 2
    /\ ftResponse[1] \in {"status", "exception"}
    /\ ftOutcome[1] \in {"Failed", "Error"}
    /\ ftFiles[Filename(ftUrls[1])] = Absent
    /\ ftOutcome[2] = "Downloaded"
    /\ ftRequests[2] = 1

=============================================================================
